---- MODULE Spec2Model ----
(***************************************************************************)
(* A model of taroize's template resolution                                *)
(* (src/packages/eslint-plugin-taro/jest.config.js, lines 26-516):         *)
(* buildTemplateName, getSrcRelPath, preParseTemplate, parseTemplate,      *)
(* getWxmlSource and parseModule.                                          *)
(*                                                                         *)
(* Strings are sequences of one-character strings, paths are sequences of  *)
(* segments, AST attribute values are records tagged with their node kind. *)
(***************************************************************************)
EXTENDS Integers, Sequences, FiniteSets, TLC

VARIABLES
  btPc,        \* buildTemplateName: "idle" | "call" | "done" | "overflow"
  btArg,       \* the name and pascal flag of the outermost call
  btName,      \* the name argument of the innermost active call
  btPascal,    \* the pascal argument of the innermost active call
  btDepth,     \* number of active buildTemplateName frames
  btResult,    \* the returned string (when btPc = "done")
  tOp,         \* last template operation: "none" | "parseTemplate" | "preParseTemplate"
  tIn,         \* its input
  tOut,        \* its outcome (return value / thrown error / tree effect)
  mOp,         \* last path/module operation: "none" | "getSrcRelPath" | "parseModule"
  mIn,         \* its input
  mOut,        \* its outcome
  errors,      \* the global diagnostics list (./global errors)
  iPc,         \* import resolution: "idle" | "run" | "done" | "overflow"
  iGraph,      \* the import tags of every file on disk
  iTag,        \* the target of the import tag being resolved
  iStack,      \* active parseModule/parseWXML frames
  iImports     \* the import records collected so far

btVars == <<btPc, btArg, btName, btPascal, btDepth, btResult>>
tVars == <<tOp, tIn, tOut>>
mVars == <<mOp, mIn, mOut, errors>>
iVars == <<iPc, iGraph, iTag, iStack, iImports>>
vars == <<btVars, tVars, mVars, iVars>>

None == [k |-> "none"]

---------------------------------------------------------------------------
(* Strings *)

StartsWith(s, p) == Len(s) >= Len(p) /\ SubSeq(s, 1, Len(p)) = p

Contains(s, p) ==
  \E i \in 0..(Len(s) - Len(p)) : SubSeq(s, i + 1, i + Len(p)) = p

SeqsUpTo(S, n) == UNION {[1..k -> S] : k \in 0..n}

NoDup(s) == \A i, j \in 1..Len(s) : i # j => s[i] # s[j]

Range(s) == {s[i] : i \in 1..Len(s)}

---------------------------------------------------------------------------
(* buildTemplateName *)

\* Longest name handed to buildTemplateName.
MaxNameLen == 4
\* Call-stack capacity of the engine, in buildTemplateName frames: a call
\* that needs one more frame ends in RangeError (stack overflow).
MaxStack == 4

NameAlphabet == {"w", "x", "W", "a", "-", "1"}

Lower(c) == CASE c = "W" -> "w" [] c = "X" -> "x" [] OTHER -> c

Upper(c) ==
  CASE c = "a" -> "A" [] c = "w" -> "W" [] c = "x" -> "X" [] c = "t" -> "T"
    [] c = "r" -> "R" [] c = "o" -> "O" [] c = "m" -> "M" [] c = "p" -> "P"
    [] c = "l" -> "L" [] c = "b" -> "B" [] OTHER -> c

\* /wx/i.test(name)
TestWx(name) ==
  \E i \in 1..(Len(name) - 1) : Lower(name[i]) = "w" /\ Lower(name[i + 1]) = "x"

\* 'taro-' + name.slice(2, name.length)
RecurseArg(name) == <<"t", "a", "r", "o", "-">> \o SubSeq(name, 3, Len(name))

Digits == <<"0", "1", "2", "3", "4", "5", "6", "7", "8", "9">>

isNumeric(c) == c \in Range(Digits)

DigitValue(c) == CHOOSE d \in 0..9 : Digits[d + 1] = c

NumberWords == <<"z", "b", "c", "d", "e", "f", "g", "h", "i", "j", "k">>

\* pascalName of ./utils: words split on the separator, each capitalised.
RECURSIVE PascalFrom(_, _)
PascalFrom(s, up) ==
  IF s = <<>> THEN <<>>
  ELSE IF Head(s) = "-" THEN PascalFrom(Tail(s), TRUE)
  ELSE <<IF up THEN Upper(Head(s)) ELSE Head(s)>> \o PascalFrom(Tail(s), FALSE)

pascalName(s) == PascalFrom(s, TRUE)

TmplSuffix == <<"-", "t", "m", "p", "l">>

\* Lines 56-67: the non-recursive tail of buildTemplateName.
BtFinish(name, pascal) ==
  LET words == IF pascal THEN pascalName(name \o TmplSuffix) ELSE name \o TmplSuffix
  IN [i \in 1..Len(words) |->
        IF isNumeric(words[i]) THEN NumberWords[DigitValue(words[i]) + 1]
        ELSE words[i]]

\* buildTemplateName as a function of its arguments: the returned string, or
\* the RangeError of a call stack that is exhausted.
RECURSIVE BtEval(_, _, _)
BtEval(name, pascal, depth) ==
  IF TestWx(name)
  THEN IF depth >= MaxStack THEN [ok |-> FALSE, v |-> <<>>]
       ELSE BtEval(RecurseArg(name), TRUE, depth + 1)
  ELSE [ok |-> TRUE, v |-> BtFinish(name, pascal)]

buildTemplateName(name) == BtEval(name, TRUE, 1)

BtIdle ==
  /\ btPc = "idle"
  /\ btArg = None
  /\ btName = <<>>
  /\ btPascal = TRUE
  /\ btDepth = 0
  /\ btResult = <<>>

\* The arguments of the call about to be made.
BtInit ==
  /\ btPc = "idle"
  /\ btArg \in {[k |-> "call", name |-> name, pascal |-> pascal] :
                  name \in SeqsUpTo(NameAlphabet, MaxNameLen), pascal \in BOOLEAN}
  /\ btName = <<>>
  /\ btPascal = TRUE
  /\ btDepth = 0
  /\ btResult = <<>>

\* A caller invokes buildTemplateName(name, pascal).
BtCall ==
  /\ btPc = "idle"
  /\ btArg.k = "call"
  /\ btName' = btArg.name
  /\ btPascal' = btArg.pascal
  /\ btPc' = "call"
  /\ btDepth' = 1
  /\ UNCHANGED <<btArg, btResult>>

\* Line 53-54: the name matches /wx/i, the function calls itself (pascal is
\* not passed on, so it takes its default).
BtRecurse ==
  /\ btPc = "call"
  /\ TestWx(btName)
  /\ btDepth < MaxStack
  /\ btName' = RecurseArg(btName)
  /\ btPascal' = TRUE
  /\ btDepth' = btDepth + 1
  /\ UNCHANGED <<btPc, btArg, btResult>>

\* Line 54 with no stack left: the engine throws RangeError.
BtOverflow ==
  /\ btPc = "call"
  /\ TestWx(btName)
  /\ btDepth >= MaxStack
  /\ btPc' = "overflow"
  /\ UNCHANGED <<btArg, btName, btPascal, btDepth, btResult>>

\* Lines 56-67: no match, the string is built and every frame returns it.
BtReturn ==
  /\ btPc = "call"
  /\ ~TestWx(btName)
  /\ btResult' = BtFinish(btName, btPascal)
  /\ btPc' = "done"
  /\ UNCHANGED <<btArg, btName, btPascal, btDepth>>

---------------------------------------------------------------------------
(* AST attribute values and thrown errors *)

\* A JSX attribute value, tagged with the kind of node it is:
\*   "absent"    the element has no such attribute
\*   "null"      the attribute has no value (node.value === null)
\*   "str"       a StringLiteral with value s
\*   "exprStr"   a JSXExpressionContainer holding a StringLiteral s
\*   "exprCond"  a JSXExpressionContainer holding a conditional c ? ... : ...,
\*               whose branches are string literals when cLit / aLit
\*   "exprOther" a JSXExpressionContainer holding any other expression
\*   "element"   a JSXElement (or fragment) used as the value
Val(k, s, cLit, aLit) == [k |-> k, s |-> s, cLit |-> cLit, aLit |-> aLit]

Absent == Val("absent", <<>>, FALSE, FALSE)
NullVal == Val("null", <<>>, FALSE, FALSE)
Str(s) == Val("str", s, FALSE, FALSE)
ExprStr(s) == Val("exprStr", s, FALSE, FALSE)
ExprCond(cLit, aLit) == Val("exprCond", <<>>, cLit, aLit)
ExprOther == Val("exprOther", <<>>, FALSE, FALSE)
ElementVal == Val("element", <<>>, FALSE, FALSE)

isStringLiteral(v) == v.k = "str"
isJSXExpressionContainer(v) == v.k \in {"exprStr", "exprCond", "exprOther"}

\* new IReportError(msg, kind, 'WXML_FILE', astToCode(node) || '', position)
IReportError(kind) ==
  [class |-> "IReportError", message |-> TRUE, kind |-> kind,
   source |-> "WXML_FILE", snippet |-> TRUE, position |-> TRUE]

\* new Error(msg)
PlainError ==
  [class |-> "Error", message |-> TRUE, kind |-> "none",
   source |-> "none", snippet |-> FALSE, position |-> FALSE]

\* The engine's RangeError: Maximum call stack size exceeded.
StackError ==
  [class |-> "RangeError", message |-> TRUE, kind |-> "none",
   source |-> "none", snippet |-> FALSE, position |-> FALSE]

NoError ==
  [class |-> "none", message |-> FALSE, kind |-> "none",
   source |-> "none", snippet |-> FALSE, position |-> FALSE]

Undefined == [k |-> "undefined"]

\* What a call did: how it ended, what it threw or returned, and what became
\* of the node in its parent ("original" | "removed" | "replaced").
Outcome(status, err, tree, repl, ret) ==
  [status |-> status, err |-> err, tree |-> tree, repl |-> repl, ret |-> ret]

Throw(err) == Outcome("throw", err, "original", None, Undefined)

---------------------------------------------------------------------------
(* parseTemplate *)

\* Lines 243-250: refdata.forEach(refId => wxses.forEach(wxsId => ...)).
\* usedWxses is a Set of WXS objects: the positions in wxses stand for them.
includes(str, sub) == Contains(str, sub)

DeleteId(refIds, id) == SelectSeq(refIds, LAMBDA r : r # id)

RECURSIVE WxsLoop(_, _, _, _)
WxsLoop(refId, wxses, j, acc) ==
  IF j > Len(wxses) THEN acc
  ELSE WxsLoop(refId, wxses, j + 1,
         IF includes(wxses[j].module, refId)
         THEN [usedWxses |-> acc.usedWxses \cup {j},
               refIds |-> DeleteId(acc.refIds, refId)]
         ELSE acc)

\* The outer loop visits the entries in insertion order; an entry deleted
\* while it is the current one does not disturb the iteration.
RECURSIVE RefLoop(_, _, _, _)
RefLoop(order, i, wxses, acc) ==
  IF i > Len(order) THEN acc
  ELSE RefLoop(order, i + 1, wxses, WxsLoop(order[i], wxses, 1, acc))

PartitionWxs(refIds, wxses) ==
  RefLoop(refIds, 1, wxses, [usedWxses |-> {}, refIds |-> refIds])

\* Mutant of PruneKeep: the first reference is pruned like any other loop id.
PruneKeepNonLoopOnly(id, firstId, loopIds) == id \notin loopIds

\* Lines 252-257: firstId = Array.from(refIds)[0]; delete every loop id but it.
PruneKeep(id, firstId, loopIds) == ~(id \in loopIds /\ id # firstId)

PruneLoopIds(refIds, loopIds) ==
  LET firstId == IF refIds = <<>> THEN Undefined ELSE refIds[1]
  IN SelectSeq(refIds, LAMBDA id : PruneKeep(id, firstId, loopIds))

\* t.jSXElement(opening(className, attributes), closing(className), [], true)
InvocationElement(className, data) ==
  [k |-> "element", tag |-> className, data |-> data, cLit |-> <<>>, aLit |-> <<>>]

\* The block of lines 348-373: {test ? <Template is=c /> : <Template is=a />}
ConditionalBlock(data) ==
  [k |-> "block", tag |-> <<"T">>, data |-> data, cLit |-> <<"c">>, aLit |-> <<"a">>]

\* Lines 229-286: the node defines a template.
ParseDefinition(node, scan, wxses) ==
  LET value == node.name
  IN IF value.k = "null" \/ ~isStringLiteral(value)
     THEN Throw(PlainError)
     ELSE
       LET className == buildTemplateName(value.s)
           part == PartitionWxs(scan.refIds, wxses)
           params == PruneLoopIds(part.refIds, scan.loopIds)
       IN IF ~className.ok THEN Throw(StackError)
          ELSE Outcome("return", NoError, "removed", None,
                 [k |-> "template", name |-> className.v, tmplName |-> value.s,
                  params |-> params, usedWxses |-> part.usedWxses])

\* Mutant of ReplaceByInvocation: path.replaceWith is never called.
ReplaceByInvocationKept(s, data) ==
  IF ~buildTemplateName(s).ok THEN Throw(StackError)
  ELSE Outcome("return", NoError, "original", None, Undefined)

\* Lines 301-314 and 316-329: replace the node by <ClassName data=... />.
ReplaceByInvocation(s, data) ==
  LET className == buildTemplateName(s)
  IN IF ~className.ok THEN Throw(StackError)
     ELSE Outcome("return", NoError, "replaced",
            InvocationElement(className.v, data), Undefined)

\* Lines 287-378: the node invokes a template.
ParseInvocation(node) ==
  LET value == node.is
  IN IF value.k = "null"
     THEN Throw(IReportError("TemplateIsAttributeEmptyError"))
     ELSE IF isStringLiteral(value)
     THEN ReplaceByInvocation(value.s, node.data)
     ELSE IF isJSXExpressionContainer(value)
     THEN IF value.k = "exprStr"
          THEN ReplaceByInvocation(value.s, node.data)
          ELSE IF value.k = "exprCond"
          THEN IF ~value.cLit \/ ~value.aLit
               THEN Throw(IReportError("TemplateIsAttributeTypeMismatchError"))
               ELSE Outcome("return", NoError, "replaced",
                      ConditionalBlock(node.data), Undefined)
          ELSE Outcome("return", NoError, "original", None, Undefined)
     ELSE Outcome("return", NoError, "original", None, Undefined)

\* Lines 195-389.
parseTemplate(node, scan, wxses) ==
  IF ~node.container
  THEN Outcome("return", NoError, "original", None, Undefined)
  ELSE IF node.name.k # "absent"
  THEN ParseDefinition(node, scan, wxses)
  ELSE IF node.is.k # "absent"
  THEN ParseInvocation(node)
  ELSE Throw(IReportError("TemplateMissingIsNameError"))

---------------------------------------------------------------------------
(* preParseTemplate *)

\* Lines 135-151, for one element: every attribute whose value is
\* {this.<identifier>} adds the identifier to templateFuncs.
CollectFuncs(funcs, elem) == funcs \cup Range(elem.funcs)

\* Lines 152-186, for one opening element: its `is` attribute.
VisitOpening(acc, elem) ==
  LET value == elem.is
  IN IF value.k = "absent" THEN acc
     ELSE IF value.k = "null"
     THEN [acc EXCEPT !.err = IReportError("TemplateIsAttributeEmptyError")]
     ELSE IF isStringLiteral(value)
     THEN LET apply == buildTemplateName(value.s)
          IN IF ~apply.ok THEN [acc EXCEPT !.err = StackError]
             ELSE [acc EXCEPT !.applies = @ \cup {apply.v}]
     ELSE acc

\* path.traverse: the opening elements of the subtree in document order, the
\* template's own first; each is entered before its attributes are.
RECURSIVE Traverse(_, _, _)
Traverse(elems, i, acc) ==
  IF i > Len(elems) \/ acc.err # NoError THEN acc
  ELSE LET opened == VisitOpening(acc, elems[i])
       IN Traverse(elems, i + 1,
            IF opened.err # NoError THEN opened
            ELSE [opened EXCEPT !.funcs = CollectFuncs(@, elems[i])])

\* Mutant of PreParseNoName: a missing `name` is reported like a bad one.
PreParseNoNameThrows == Throw(IReportError("TemplateNameTypeMismatchError"))

\* Lines 114-116: the node has no `name` attribute.
PreParseNoName == Outcome("return", NoError, "original", None, Undefined)

\* Lines 101-193. elems[1] is the template's own opening element.
preParseTemplate(node, elems) ==
  IF ~node.container
  THEN Outcome("return", NoError, "original", None, Undefined)
  ELSE IF node.name.k = "absent"
  THEN PreParseNoName
  ELSE LET value == node.name
       IN IF value.k = "null" \/ ~isStringLiteral(value)
          THEN Throw(IReportError("TemplateNameTypeMismatchError"))
          ELSE
            LET templateName == buildTemplateName(value.s)
                scanned == Traverse(elems, 1,
                             [funcs |-> {}, applies |-> {}, err |-> NoError])
            IN IF ~templateName.ok THEN Throw(StackError)
               ELSE IF scanned.err # NoError THEN Throw(scanned.err)
               ELSE Outcome("return", NoError, "original", None,
                      [k |-> "scan", name |-> templateName.v,
                       funcs |-> scanned.funcs, applies |-> scanned.applies])

---------------------------------------------------------------------------
(* The template operations, applied to bounded inputs *)

\* Most references the wxml visitor collects from one template body.
MaxRefs == 3
\* Most registered WXS modules.
MaxWxs == 2
\* Most elements below a template that preParseTemplate traverses.
MaxChildren == 1

\* Template names: empty, plain, with the legacy prefix, and with "wx" at
\* index 2.
TmplNames == {<<>>, <<"a">>, <<"w", "x", "a">>, <<"a", "b", "w", "x">>}

NameValues ==
  {Absent, NullVal, ExprOther, ExprStr(<<"a">>)} \cup {Str(s) : s \in TmplNames}

IsValues ==
  {Absent, NullVal, ExprOther, ElementVal}
    \cup {Str(s) : s \in TmplNames}
    \cup {ExprStr(s) : s \in TmplNames}
    \cup {ExprCond(c, a) : c, a \in BOOLEAN}

Idents == {<<"a">>, <<"b">>, <<"a", "b">>}
ModuleNames == {<<"b">>, <<"a", "b">>}

\* What createWxmlVisitor leaves in refIds (a Set: insertion order, no
\* duplicates) and loopIds after the traversal.
Scans ==
  {[refIds |-> r, loopIds |-> l] :
     r \in {q \in SeqsUpTo(Idents, MaxRefs) : NoDup(q)}, l \in SUBSET Idents}

EmptyScan == [refIds |-> <<>>, loopIds |-> {}]

WxsLists == SeqsUpTo({[module |-> m] : m \in ModuleNames}, MaxWxs)

TNode(container, name, is, data) ==
  [container |-> container, name |-> name, is |-> is, data |-> data]

ChildElems ==
  {[is |-> i, funcs |-> f] :
     i \in {Absent, NullVal, ExprOther, Str(<<"a">>), Str(<<"a", "b", "w", "x">>)},
     f \in {<<>>, <<"f">>, <<"f", "g">>}}

DefinitionInputs ==
  {[k |-> "definition", node |-> TNode(TRUE, Str(s), is, data),
    scan |-> scan, wxses |-> wxses] :
     s \in TmplNames, is \in {Absent, Str(<<"a">>)}, data \in BOOLEAN,
     scan \in Scans, wxses \in WxsLists}

OtherInputs ==
  {in \in {[k |-> "other", node |-> TNode(container, name, is, data),
            scan |-> EmptyScan, wxses |-> <<>>] :
             container \in BOOLEAN, name \in NameValues, is \in IsValues,
             data \in BOOLEAN} :
     ~(in.node.container /\ isStringLiteral(in.node.name))}

PreParseInputs ==
  {[k |-> "preParse", node |-> TNode(container, name, is, FALSE),
    elems |-> <<[is |-> is, funcs |-> own]>> \o children] :
     container \in BOOLEAN, name \in NameValues,
     is \in {Absent, NullVal, Str(<<"a">>), ExprOther},
     own \in {<<>>, <<"g">>}, children \in SeqsUpTo(ChildElems, MaxChildren)}

TIdle ==
  /\ tOp = "none"
  /\ tIn = None
  /\ tOut = None

\* The node about to be handed to parseTemplate or preParseTemplate.
TInit ==
  /\ tOp = "none"
  /\ tIn \in DefinitionInputs \cup OtherInputs \cup PreParseInputs
  /\ tOut = None

\* parseTemplate on a node that defines a template (`name` is a string literal).
CallParseDefinition ==
  /\ tOp = "none"
  /\ tIn.k = "definition"
  /\ tOp' = "parseTemplate"
  /\ tOut' = parseTemplate(tIn.node, tIn.scan, tIn.wxses)
  /\ UNCHANGED tIn

\* parseTemplate on any other node: the visitor is never run.
CallParseOther ==
  /\ tOp = "none"
  /\ tIn.k = "other"
  /\ tOp' = "parseTemplate"
  /\ tOut' = parseTemplate(tIn.node, tIn.scan, tIn.wxses)
  /\ UNCHANGED tIn

CallPreParseTemplate ==
  /\ tOp = "none"
  /\ tIn.k = "preParse"
  /\ tOp' = "preParseTemplate"
  /\ tOut' = preParseTemplate(tIn.node, tIn.elems)
  /\ UNCHANGED tIn

---------------------------------------------------------------------------
(* node:path and the file system *)

\* A path string is a sequence of characters; a resolved path is the
\* sequence of its segments below "/".
Wxml == <<".", "w", "x", "m", "l">>

RECURSIVE SplitFrom(_, _, _)
SplitFrom(s, i, cur) ==
  IF i > Len(s) THEN <<cur>>
  ELSE IF s[i] = "/" THEN <<cur>> \o SplitFrom(s, i + 1, <<>>)
  ELSE SplitFrom(s, i + 1, Append(cur, s[i]))

Split(s) == SplitFrom(s, 1, <<>>)

DotDot == <<".", ".">>

\* Normalisation of a path below "/": empty and "." segments vanish, ".."
\* removes the segment before it (and vanishes at the top).
RECURSIVE NormalizeFrom(_, _, _)
NormalizeFrom(segs, i, done) ==
  IF i > Len(segs) THEN done
  ELSE IF segs[i] = <<>> \/ segs[i] = <<".">> THEN NormalizeFrom(segs, i + 1, done)
  ELSE IF segs[i] = DotDot
  THEN NormalizeFrom(segs, i + 1,
         IF done = <<>> THEN done ELSE SubSeq(done, 1, Len(done) - 1))
  ELSE NormalizeFrom(segs, i + 1, Append(done, segs[i]))

\* join(dir, str) and resolve(dir, str) for an absolute dir.
join(dir, str) == NormalizeFrom(dir \o Split(str), 1, <<>>)

LastDot(seg) ==
  IF \E i \in 1..Len(seg) : seg[i] = "."
  THEN CHOOSE i \in 1..Len(seg) :
         seg[i] = "." /\ \A j \in (i + 1)..Len(seg) : seg[j] # "."
  ELSE 0

\* extname: from the last "." of the last segment, unless that "." is the
\* segment's first character.
extname(path) ==
  IF path = <<>> THEN <<>>
  ELSE LET base == path[Len(path)]
           i == LastDot(base)
       IN IF i <= 1 \/ base = DotDot THEN <<>> ELSE SubSeq(base, i, Len(base))

dirname(path) == IF path = <<>> THEN path ELSE SubSeq(path, 1, Len(path) - 1)

\* `${path}.wxml`
WithWxml(path) ==
  IF path = <<>> THEN <<Wxml>>
  ELSE [path EXCEPT ![Len(path)] = @ \o Wxml]

RECURSIVE CommonLen(_, _)
CommonLen(a, b) ==
  IF a = <<>> \/ b = <<>> \/ Head(a) # Head(b) THEN 0
  ELSE 1 + CommonLen(Tail(a), Tail(b))

RECURSIVE JoinWith(_, _)
JoinWith(segs, sep) ==
  IF segs = <<>> THEN <<>>
  ELSE IF Len(segs) = 1 THEN segs[1]
  ELSE segs[1] \o <<sep>> \o JoinWith(Tail(segs), sep)

\* relative(from, to) for two absolute paths, written with the platform's
\* separator.
relative(from, to, sep) ==
  LET c == CommonLen(from, to)
  IN JoinWith([i \in 1..(Len(from) - c) |-> DotDot] \o SubSeq(to, c + 1, Len(to)), sep)

\* setting.rootPath
RootPath == << <<"r">> >>

FileA == << <<"r">>, <<"a">> \o Wxml >>
FileHidden == << <<"r">>, <<".", "h">> \o Wxml >>
FileCA == << <<"r">>, <<"c">>, <<"a">> \o Wxml >>

FileUniverse == {FileA, FileHidden, FileCA}

\* Directories that exist in every file system considered.
Dirs == {<<>>, RootPath, << <<"r">>, <<"c">> >>}

\* A file system: what each file of the universe holds, "none" when it does
\* not exist; "empty" is the empty file, "full" markup with a root element
\* and template definitions, "defs" markup with template definitions only.
FileSystems == [FileUniverse -> {"none", "empty", "full", "defs"}]

existsSync(fs, path) ==
  path \in Dirs \/ (path \in FileUniverse /\ fs[path] # "none")

\* fs.readFileSync(path, 'utf-8'): the content, or a throw (ENOENT, EISDIR).
readFileSync(fs, path) ==
  IF path \in FileUniverse /\ fs[path] # "none"
  THEN [ok |-> TRUE, content |-> fs[path]]
  ELSE [ok |-> FALSE, content |-> "none"]

---------------------------------------------------------------------------
(* getSrcRelPath *)

\* relativePath.replace(/\\/g, '/')
ReplaceBackslashes(s) == [i \in 1..Len(s) |-> IF s[i] = "\\" THEN "/" ELSE s[i]]

\* Lines 85-90: relativePath.indexOf('.') !== 0
PrefixRelative(relativePath) ==
  IF ~(relativePath # <<>> /\ relativePath[1] = ".")
  THEN <<".", "/">> \o relativePath
  ELSE relativePath

\* Lines 77-94: the returned string, or the thrown Error.
getSrcRelPath(fs, sep, dirPath, srcPath) ==
  IF StartsWith(srcPath, <<"/">>)
  THEN LET absolutPath == join(RootPath, Tail(srcPath))
       IN IF ~existsSync(fs, absolutPath) /\ ~existsSync(fs, WithWxml(absolutPath))
          THEN [ok |-> FALSE, v |-> <<>>]
          ELSE [ok |-> TRUE,
                v |-> PrefixRelative(
                        ReplaceBackslashes(relative(dirPath, absolutPath, sep)))]
  ELSE [ok |-> TRUE, v |-> srcPath]

---------------------------------------------------------------------------
(* getWxmlSource and parseModule *)

\* The diagnostic string of line 400, by the two values it interpolates.
Diagnostic(type, src) == [type |-> type, src |-> src]

\* Mutant of getWxmlSource: the catch block swallows the failure silently.
getWxmlSourceSilent(fs, dirPath, src, type) ==
  LET joined == join(dirPath, src)
      filePath == IF extname(joined) = <<>> THEN WithWxml(joined) ELSE joined
      file == readFileSync(fs, filePath)
  IN [file |-> IF file.ok THEN file.content ELSE "empty", pushed |-> <<>>]

\* Lines 391-403: the file's content ("empty" is ''), and what is pushed
\* onto errors.
getWxmlSource(fs, dirPath, src, type) ==
  LET joined == join(dirPath, src)
      filePath == IF extname(joined) = <<>> THEN WithWxml(joined) ELSE joined
      file == readFileSync(fs, filePath)
  IN IF file.ok THEN [file |-> file.content, pushed |-> <<>>]
     ELSE [file |-> "empty", pushed |-> <<Diagnostic(type, src)>>]

\* parseWXML of ./wxml on a file without import tags: the root element (or
\* none) and the template definitions found.
parseWXML(content) ==
  CASE content = "full" -> [wxml |-> TRUE, imports |-> <<"tmpl">>]
    [] content = "defs" -> [wxml |-> FALSE, imports |-> <<"tmpl">>]
    [] OTHER -> [wxml |-> FALSE, imports |-> <<>>]

ModuleResult(out, pushed) == [out |-> out, pushed |-> pushed]

\* Lines 479-487.
ParseImport(fs, dirPath, srcValue) ==
  LET source == getWxmlSource(fs, dirPath, srcValue, "import")
      parsed == parseWXML(source.file)
  IN ModuleResult(
       Outcome("return", NoError, "removed", None,
         [k |-> "imports", imports |-> parsed.imports]),
       source.pushed)

\* Lines 488-515.
ParseInclude(fs, dirPath, srcValue) ==
  LET source == getWxmlSource(fs, dirPath, srcValue, "include")
      parsed == parseWXML(source.file)
  IN IF source.file = "empty"
     THEN ModuleResult(Outcome("return", NoError, "removed", None, Undefined),
            source.pushed)
     ELSE ModuleResult(
            Outcome("return", NoError, "replaced",
              [k |-> IF parsed.wxml THEN "wxml" ELSE "block"], Undefined),
            source.pushed)

\* Lines 405-516. (The test of line 436 cannot fail: attrs.find only returns
\* a JSXAttribute.)
parseModule(fs, sep, jsx, dirPath, type) ==
  IF jsx.src.k = "absent"
  THEN ModuleResult(Throw(IReportError("WxmlTagSrcAttributeError")), <<>>)
  ELSE
    LET dir == IF extname(dirPath) # <<>> THEN dirname(dirPath) ELSE dirPath
        value == jsx.src
    IN IF ~isStringLiteral(value)
       THEN ModuleResult(Throw(IReportError("WxmlTagSrcAttributeError")), <<>>)
       ELSE
         LET srcValue == getSrcRelPath(fs, sep, dir, value.s)
         IN IF ~srcValue.ok
            THEN ModuleResult(Throw(IReportError("ImportSrcPathFormatError")), <<>>)
            ELSE IF type = "import"
            THEN ParseImport(fs, dir, srcValue.v)
            ELSE ParseInclude(fs, dir, srcValue.v)

---------------------------------------------------------------------------
(* The path and module operations, applied to bounded inputs *)

SrcStrings ==
  {<<"/", "a">>,
   <<"/", "a", ".", "w", "x", "m", "l">>,
   <<"/", ".", "h">>,
   <<"/", ".", "h", ".", "w", "x", "m", "l">>,
   <<"/", "c", "/", "a">>,
   <<"/", "c">>,
   <<"/", "x">>,
   <<"a">>,
   <<"a", ".", "w", "x", "m", "l">>,
   <<".", "/", "a">>,
   <<".", ".", "/", "a", ".", "w", "x", "m", "l">>,
   <<".", "h">>,
   <<"x">>}

\* Directories a file under compilation may lie in.
DirPaths == {RootPath, << <<"r">>, <<"c">> >>, << <<"q">> >>}

\* The file under compilation, which parseModule also accepts as dirPath.
FilePaths == {<< <<"r">>, <<"c">>, <<"p">> \o Wxml >>}

\* path.sep of the platform.
Separators == {"/", "\\"}

SrcValues == {Absent, NullVal, ExprOther} \cup {Str(s) : s \in SrcStrings}

\* What the diagnostics list may hold when the call is made.
PriorErrors == {<<>>, <<Diagnostic("include", <<"o">>)>>}

PathInputs ==
  {[k |-> "path", fs |-> fs, sep |-> sep, dirPath |-> dirPath, srcPath |-> srcPath] :
     fs \in FileSystems, sep \in Separators, dirPath \in DirPaths,
     srcPath \in SrcStrings}

ModuleInputs ==
  {[k |-> "module", fs |-> fs, sep |-> sep, dirPath |-> dirPath,
    jsx |-> [src |-> src], type |-> type, prior |-> prior] :
     fs \in FileSystems, sep \in Separators, dirPath \in DirPaths \cup FilePaths,
     src \in SrcValues, type \in {"import", "include"}, prior \in PriorErrors}

MIdle ==
  /\ mOp = "none"
  /\ mIn = None
  /\ mOut = None
  /\ errors = <<>>

\* The arguments of the call about to be made, and the diagnostics so far.
MInit ==
  /\ mOp = "none"
  /\ mIn \in PathInputs \cup ModuleInputs
  /\ mOut = None
  /\ errors = IF mIn.k = "module" THEN mIn.prior ELSE <<>>

CallGetSrcRelPath ==
  /\ mOp = "none"
  /\ mIn.k = "path"
  /\ mOp' = "getSrcRelPath"
  /\ mOut' = getSrcRelPath(mIn.fs, mIn.sep, mIn.dirPath, mIn.srcPath)
  /\ UNCHANGED <<mIn, errors>>

CallParseModule ==
  /\ mOp = "none"
  /\ mIn.k = "module"
  /\ LET res == parseModule(mIn.fs, mIn.sep, mIn.jsx, mIn.dirPath, mIn.type)
     IN /\ mOut' = res.out
        /\ errors' = errors \o res.pushed
  /\ mOp' = "parseModule"
  /\ UNCHANGED mIn

---------------------------------------------------------------------------
(* Import resolution: parseModule(type = 'import') through parseWXML *)

\* Files on disk that hold import tags.
NumFiles == 2
\* Most import tags in one file.
MaxTags == 2
\* Call-stack capacity of the engine, in nested parseModule calls.
MaxImportDepth == 3

Files == 1..NumFiles
\* An import tag's target: a file on disk, or 0 for a path with no file.
Targets == Files \cup {0}

ImportGraphs ==
  [Files -> {tags \in SUBSET Targets : Cardinality(tags) <= MaxTags}]

RECURSIVE SetToSeq(_)
SetToSeq(S) ==
  IF S = {} THEN <<>>
  ELSE LET m == CHOOSE x \in S : \A y \in S : x <= y
       IN <<m>> \o SetToSeq(S \ {m})

\* parseWXML of ./wxml on a file's markup: its visitor hands every import
\* tag of the file to parseModule, in document order.
ImportTagsOf(graph, file) == SetToSeq(graph[file])

\* Mutant of ReadImport: a missing file is thrown, not caught.
ReadImportThrows(graph, target) ==
  IF target \in Files
  THEN [found |-> TRUE, thrown |-> FALSE]
  ELSE [found |-> FALSE, thrown |-> TRUE]

\* Line 480: getWxmlSource reads the target, whatever was read before; a
\* missing file is caught (lines 399-402), never thrown.
ReadImport(graph, target) ==
  IF target \in Files
  THEN [found |-> TRUE, thrown |-> FALSE]
  ELSE [found |-> FALSE, thrown |-> FALSE]

Frame(file, todo) == [file |-> file, todo |-> todo]

Top == iStack[Len(iStack)]

Advance(stack) ==
  [stack EXCEPT ![Len(stack)] = Frame(@.file, Tail(@.todo))]

IIdle ==
  /\ iPc = "idle"
  /\ iGraph = [f \in Files |-> {}]
  /\ iTag = 0
  /\ iStack = <<>>
  /\ iImports = <<>>

\* The files on disk; the markup under compilation (frame 0) holds one
\* import tag, which the visitor is about to hand to parseModule.
IInit ==
  /\ iPc = "run"
  /\ iGraph \in ImportGraphs
  /\ iTag \in Targets
  /\ iStack = <<Frame(0, <<iTag>>)>>
  /\ iImports = <<>>

\* parseModule on a tag whose file exists: the file is read and parsed.
IDescend ==
  /\ iPc = "run"
  /\ Top.todo # <<>>
  /\ ReadImport(iGraph, Head(Top.todo)).found
  /\ Len(iStack) <= MaxImportDepth
  /\ iStack' = Append(iStack,
                 Frame(Head(Top.todo), ImportTagsOf(iGraph, Head(Top.todo))))
  /\ UNCHANGED <<iPc, iGraph, iTag, iImports>>

\* The same, with no stack left for the call.
IOverflow ==
  /\ iPc = "run"
  /\ Top.todo # <<>>
  /\ ReadImport(iGraph, Head(Top.todo)).found
  /\ Len(iStack) > MaxImportDepth
  /\ iPc' = "overflow"
  /\ UNCHANGED <<iGraph, iTag, iStack, iImports>>

\* parseModule on a tag whose file is missing: nothing is read, the tag is
\* removed and the caller goes on.
IMissing ==
  /\ iPc = "run"
  /\ Top.todo # <<>>
  /\ ~ReadImport(iGraph, Head(Top.todo)).found
  /\ iPc' = IF ReadImport(iGraph, Head(Top.todo)).thrown THEN "failed" ELSE iPc
  /\ iStack' = Advance(iStack)
  /\ UNCHANGED <<iGraph, iTag, iImports>>

\* Lines 482-487: the file is parsed, its tag is removed and its definitions
\* are returned to the caller.
IReturn ==
  /\ iPc = "run"
  /\ Len(iStack) > 1
  /\ Top.todo = <<>>
  /\ iImports' = Append(iImports, Top.file)
  /\ iStack' = Advance(SubSeq(iStack, 1, Len(iStack) - 1))
  /\ UNCHANGED <<iPc, iGraph, iTag>>

\* The outermost tag is resolved.
IFinish ==
  /\ iPc = "run"
  /\ Len(iStack) = 1
  /\ Top.todo = <<>>
  /\ iPc' = "done"
  /\ UNCHANGED <<iGraph, iTag, iStack, iImports>>


---------------------------------------------------------------------------
(* Specifications *)

InitName == BtInit /\ TIdle /\ MIdle /\ IIdle
InitTemplate == BtIdle /\ TInit /\ MIdle /\ IIdle
InitModule == BtIdle /\ TIdle /\ MInit /\ IIdle
InitImport == BtIdle /\ TIdle /\ MIdle /\ IInit

NextName ==
  \/ (BtCall /\ UNCHANGED <<tVars, mVars, iVars>>)
  \/ (BtRecurse /\ UNCHANGED <<tVars, mVars, iVars>>)
  \/ (BtOverflow /\ UNCHANGED <<tVars, mVars, iVars>>)
  \/ (BtReturn /\ UNCHANGED <<tVars, mVars, iVars>>)

NextTemplate ==
  \/ (CallParseDefinition /\ UNCHANGED <<btVars, mVars, iVars>>)
  \/ (CallParseOther /\ UNCHANGED <<btVars, mVars, iVars>>)
  \/ (CallPreParseTemplate /\ UNCHANGED <<btVars, mVars, iVars>>)

NextModule ==
  \/ (CallGetSrcRelPath /\ UNCHANGED <<btVars, tVars, iVars>>)
  \/ (CallParseModule /\ UNCHANGED <<btVars, tVars, iVars>>)

NextImport ==
  \/ (IDescend /\ UNCHANGED <<btVars, tVars, mVars>>)
  \/ (IOverflow /\ UNCHANGED <<btVars, tVars, mVars>>)
  \/ (IMissing /\ UNCHANGED <<btVars, tVars, mVars>>)
  \/ (IReturn /\ UNCHANGED <<btVars, tVars, mVars>>)
  \/ (IFinish /\ UNCHANGED <<btVars, tVars, mVars>>)

SpecName == InitName /\ [][NextName]_vars
SpecTemplate == InitTemplate /\ [][NextTemplate]_vars
SpecModule == InitModule /\ [][NextModule]_vars

\* The resolution is synchronous, single-threaded code: a call in progress
\* keeps running.
SpecImport == InitImport /\ [][NextImport]_vars /\ WF_vars(NextImport)

---------------------------------------------------------------------------
(* Claims *)

\* C1: buildTemplateName has no failure modes: every call terminates and
\* returns a string, whatever the name; no call exhausts the stack.
C1_AlwaysReturnsString == btPc # "overflow"

\* Index (from 0) of the first match of /wx/i in a name, -1 when none.
WxIndex(name) ==
  IF TestWx(name)
  THEN (CHOOSE i \in 1..(Len(name) - 1) :
          /\ Lower(name[i]) = "w" /\ Lower(name[i + 1]) = "x"
          /\ \A j \in 1..(i - 1) : ~(Lower(name[j]) = "w" /\ Lower(name[j + 1]) = "x")) - 1
  ELSE -1

\* Why C1 fails for any stack: a match at index 2 or later is still there
\* (three places further) in the argument of the recursive call.
C1_MatchSurvivesRecursion ==
  [][(btPc = "call" /\ WxIndex(btName) >= 2 /\ btName' # btName)
       => WxIndex(btName') = WxIndex(btName) + 3]_vars

ParseTemplateRan == tOp = "parseTemplate"

\* C2 as stated: whenever parseTemplate returns normally for a node with a
\* parent, the node has been removed (definition) or replaced (invocation).
C2_ReturnedMeansRewritten ==
  (ParseTemplateRan /\ tIn.node.container /\ tOut.status = "return")
    => \/ (tIn.node.name.k # "absent" /\ tOut.tree = "removed")
       \/ (tIn.node.name.k = "absent" /\ tOut.tree = "replaced")

\* C2 amended: a normal return has removed a definition, has replaced an
\* invocation whose `is` is a string literal, an expression container
\* holding a string literal or a conditional of two string literals, and has
\* left the node untouched when `is` is a container holding any other
\* expression or is neither a literal nor a container; the latter always
\* return normally.
C2_RewrittenOrLeftDynamic ==
  ParseTemplateRan /\ tIn.node.container =>
    /\ tOut.status = "return" =>
         \/ (isStringLiteral(tIn.node.name) /\ tOut.tree = "removed")
         \/ /\ tIn.node.name.k = "absent"
            /\ tIn.node.is.k \in {"str", "exprStr"}
            /\ tOut.tree = "replaced" /\ tOut.repl.k = "element"
         \/ /\ tIn.node.name.k = "absent"
            /\ tIn.node.is.k = "exprCond" /\ tIn.node.is.cLit /\ tIn.node.is.aLit
            /\ tOut.tree = "replaced" /\ tOut.repl.k = "block"
         \/ /\ tIn.node.name.k = "absent"
            /\ tIn.node.is.k \in {"exprOther", "element"}
            /\ tOut.tree = "original"
    /\ (tIn.node.name.k = "absent" /\ tIn.node.is.k \in {"exprOther", "element"})
         => (tOut.status = "return" /\ tOut.tree = "original")
    /\ tOut.status = "throw" => tOut.tree = "original"

C2_Witness ==
  /\ ParseTemplateRan /\ tIn.node.container
  /\ tIn.node.name.k = "absent" /\ tIn.node.is.k = "exprOther"
  /\ tOut.status = "return" /\ tOut.tree = "original"

Taxonomy ==
  {"TemplateNameTypeMismatchError", "TemplateIsAttributeEmptyError",
   "TemplateIsAttributeTypeMismatchError", "TemplateMissingIsNameError",
   "WxmlTagSrcAttributeError", "ImportSrcPathFormatError"}

TypedReport(err) ==
  /\ err.class = "IReportError"
  /\ err.message
  /\ err.kind \in Taxonomy
  /\ err.source = "WXML_FILE"
  /\ err.snippet
  /\ err.position

\* C3: every failure parseTemplate raises itself (the engine's stack error
\* of C1 aside) is a typed report: message, kind of the taxonomy, source
\* kind "WXML_FILE", snippet and position.
C3_FailuresAreTypedReports ==
  (ParseTemplateRan /\ tOut.status = "throw" /\ tOut.err # StackError)
    => TypedReport(tOut.err)

\* C4: with a parent, no `name`, and an `is` that has no value or is the
\* empty string literal, parseTemplate fails with
\* TemplateIsAttributeEmptyError and leaves the node in place.
C4_EmptyIsFails ==
  (/\ ParseTemplateRan /\ tIn.node.container /\ tIn.node.name.k = "absent"
   /\ (tIn.node.is.k = "null" \/ tIn.node.is = Str(<<>>)))
    => /\ tOut.status = "throw"
       /\ tOut.err = IReportError("TemplateIsAttributeEmptyError")
       /\ tOut.tree = "original"

ParseModuleRan == mOp = "parseModule"

SrcIsAbsolute == StartsWith(mIn.jsx.src.s, <<"/">>)

\* The directory parseModule resolves against.
ModuleDir ==
  IF extname(mIn.dirPath) # <<>> THEN dirname(mIn.dirPath) ELSE mIn.dirPath

\* The path an absolute src names under the project root.
RootTarget == join(RootPath, Tail(mIn.jsx.src.s))

RootTargetExists ==
  existsSync(mIn.fs, RootTarget) \/ existsSync(mIn.fs, WithWxml(RootTarget))

\* The file the tag names: the src below the directory (below the project
\* root when absolute), with ".wxml" when it has no extension.
TargetFile ==
  LET named == IF SrcIsAbsolute THEN RootTarget ELSE join(ModuleDir, mIn.jsx.src.s)
  IN IF extname(named) = <<>> THEN WithWxml(named) ELSE named

TargetFileMissing == ~(TargetFile \in FileUniverse /\ mIn.fs[TargetFile] # "none")

\* The soft failure: no throw, one diagnostic appended to errors, the tag
\* removed, no import records (import) or no replacement node (include).
SoftFailure ==
  /\ mOut.status = "return"
  /\ Len(errors) = Len(mIn.prior) + 1
  /\ SubSeq(errors, 1, Len(mIn.prior)) = mIn.prior
  /\ errors[Len(errors)].type = mIn.type
  /\ mOut.tree = "removed"
  /\ mOut.repl = None
  /\ IF mIn.type = "import"
     THEN mOut.ret.k = "imports" /\ mOut.ret.imports = <<>>
     ELSE mOut.ret = Undefined

\* C5 as stated: a string-literal src, relative or absolute, whose target
\* file does not exist is a soft failure of parseModule.
C5_MissingFileIsSoft ==
  (/\ ParseModuleRan /\ isStringLiteral(mIn.jsx.src)
   /\ IF SrcIsAbsolute THEN ~RootTargetExists ELSE TargetFileMissing)
    => SoftFailure

\* C5 amended: the missing file is a soft failure when src is relative, or
\* absolute with the path or path + ".wxml" existing under the project root;
\* an absolute src with neither existing makes parseModule throw
\* ImportSrcPathFormatError, with nothing added to errors and the tag kept.
C5_MissingFileSoftUnlessUnresolved ==
  (ParseModuleRan /\ isStringLiteral(mIn.jsx.src)) =>
    /\ ((~SrcIsAbsolute \/ RootTargetExists) /\ TargetFileMissing) => SoftFailure
    /\ (SrcIsAbsolute /\ ~RootTargetExists) =>
         /\ mOut.status = "throw"
         /\ mOut.err = IReportError("ImportSrcPathFormatError")
         /\ errors = mIn.prior
         /\ mOut.tree = "original"

C5_Witness ==
  /\ ParseModuleRan /\ isStringLiteral(mIn.jsx.src)
  /\ ~SrcIsAbsolute /\ TargetFileMissing
  /\ mIn.prior # <<>> /\ mIn.type = "import"
  /\ mOut.status = "return" /\ Len(errors) = 2 /\ mOut.tree = "removed"

DefinitionReturned ==
  /\ ParseTemplateRan /\ tIn.k = "definition"
  /\ tOut.status = "return" /\ tOut.ret.k = "template"

RegisteredNames == {tIn.wxses[j].module : j \in 1..Len(tIn.wxses)}

\* C6: the WXS partition moves a reference out of refIds and adds a module
\* to usedWxses exactly when the reference equals a registered module name.
C6_PartitionByEquality ==
  DefinitionReturned =>
    /\ tOut.ret.usedWxses =
         {j \in 1..Len(tIn.wxses) : tIn.wxses[j].module \in Range(tIn.scan.refIds)}
    /\ \A r \in Range(tIn.scan.refIds) :
         r \in RegisteredNames <=> r \notin Range(PartitionWxs(tIn.scan.refIds, tIn.wxses).refIds)

\* The references the WXS partition leaves: those that occur in no
\* registered module name, in discovery order.
LeftAfterPartition ==
  SelectSeq(tIn.scan.refIds,
    LAMBDA r : \A j \in 1..Len(tIn.wxses) : ~Contains(tIn.wxses[j].module, r))

NonLoopLeft == Range(LeftAfterPartition) \ tIn.scan.loopIds

GetSrcRelPathRan == mOp = "getSrcRelPath"

\* C8: for an absolute srcPath whose target (or target + ".wxml") exists
\* under the project root the result begins with "./" or "../" and holds no
\* backslash; with neither existing the call fails; a srcPath that does not
\* start with "/" is returned unchanged.
C8_RelativeResultIsDotPrefixed ==
  GetSrcRelPathRan =>
    IF StartsWith(mIn.srcPath, <<"/">>)
    THEN LET target == join(RootPath, Tail(mIn.srcPath))
         IN IF existsSync(mIn.fs, target) \/ existsSync(mIn.fs, WithWxml(target))
            THEN /\ mOut.ok
                 /\ \/ StartsWith(mOut.v, <<".", "/">>)
                    \/ StartsWith(mOut.v, <<".", ".", "/">>)
                 /\ "\\" \notin Range(mOut.v)
            ELSE ~mOut.ok
    ELSE mOut.ok /\ mOut.v = mIn.srcPath

PreParseRan == tOp = "preParseTemplate"

NameTypeMismatch ==
  /\ tOut.status = "throw"
  /\ tOut.err = IReportError("TemplateNameTypeMismatchError")

\* C9 as stated: with a parent, preParseTemplate returns {name, funcs,
\* applies} only for a string-literal `name` and fails with
\* TemplateNameTypeMismatchError in every other case, a missing `name`
\* included; it returns undefined only without a parent.
C9_NameRequired ==
  PreParseRan =>
    /\ (tOut.status = "return" /\ tOut.ret # Undefined)
         => (tIn.node.container /\ isStringLiteral(tIn.node.name))
    /\ (tIn.node.container /\ ~isStringLiteral(tIn.node.name)) => NameTypeMismatch
    /\ (tOut.status = "return" /\ tOut.ret = Undefined) => ~tIn.node.container

\* C9 amended: preParseTemplate returns undefined when the node has no
\* parent or no `name` attribute, and only then; with a parent it fails with
\* TemplateNameTypeMismatchError when `name` is present without a value or
\* with a non-literal value, and returns {name, funcs, applies} only for a
\* string-literal `name`; it never touches the tree.
C9_NameRequiredWhenPresent ==
  PreParseRan =>
    /\ (tOut.status = "return" /\ tOut.ret # Undefined)
         => (tIn.node.container /\ isStringLiteral(tIn.node.name) /\ tOut.ret.k = "scan")
    /\ (/\ tIn.node.container /\ tIn.node.name.k # "absent"
        /\ ~isStringLiteral(tIn.node.name)) => NameTypeMismatch
    /\ (~tIn.node.container \/ tIn.node.name.k = "absent")
         => (tOut.status = "return" /\ tOut.ret = Undefined)
    /\ (tOut.status = "return" /\ tOut.ret = Undefined)
         => (~tIn.node.container \/ tIn.node.name.k = "absent")
    /\ tOut.tree = "original"

C9_Witness ==
  /\ PreParseRan /\ tIn.node.container /\ tIn.node.name.k = "absent"
  /\ tOut.status = "return" /\ tOut.ret = Undefined

\* The files an import of `from` reaches: it, and what they import.
RECURSIVE ReachFrom(_, _)
ReachFrom(S, n) ==
  IF n = 0 THEN S
  ELSE ReachFrom(S \cup UNION {iGraph[f] \cap Files : f \in S}, n - 1)

Reached == ReachFrom({iTag} \cap Files, NumFiles)

\* Some file the tag reaches imports, directly or not, itself.
CycleReached ==
  \E f \in Reached : f \in ReachFrom(iGraph[f] \cap Files, NumFiles)

====
